---- MODULE Spec2Model ----
(***************************************************************************)
(* A model of the expense tracker: the in-memory ExpenseCalculator         *)
(* (src/src/components/ExpenseCalculator.tsx), the Supabase-backed         *)
(* ExpenseCalculator (src/unnamed/part_000) and the aggregation done by    *)
(* ExpenseCharts (src/src/components/ExpenseCharts.tsx).                   *)
(*                                                                         *)
(* Amounts are whole numbers: JavaScript's Number arithmetic is modelled   *)
(* exactly (as rationals, with NaN and Infinity for a division by zero),   *)
(* so IEEE-754 rounding is outside the model.                              *)
(***************************************************************************)
EXTENDS Integers, Sequences, FiniteSets, TLC

VARIABLES
    \* ExpenseCalculator.tsx (in-memory variant)
    expenses, form, editingId, filterCategory, now, toast,
    \* ExpenseCharts.tsx / category breakdown, as a pure function of its props
    props, rendered, categoryData, categoryTotals,
    \* the rest of what a render derives from the list (monthly trend, daily
    \* expenses, the summary cards) and what it reads besides the list: the
    \* category filter, the hour of the UTC day, the time zone of the browser
    monthlyData, dailyData, summary, propsFilter, nowHour, timeZone,
    \* the list under Top Spending Categories
    topCategories,
    \* part_000 (Supabase-backed variant): component state, the route, the
    \* remote table, the running async handlers, the outcome of the last
    \* loadExpenses that finished
    sbExpenses, sbForm, sbEditingId, loading, route, store, nextId, handlers,
    lastReload,
    \* part_000, Login: component state, the pending setTimeout callback with
    \* the values its closure holds, the browser's local storage, the path
    \* the router shows, the last toast
    userId, password, isLoading, loginTimer, localStorage, path, loginToast

calcVars == <<expenses, form, editingId, filterCategory, now, toast>>
aggVars == <<props, rendered, categoryData, categoryTotals, monthlyData,
             dailyData, summary, propsFilter, nowHour, timeZone,
             topCategories>>
sbVars == <<sbExpenses, sbForm, sbEditingId, loading, route, store, nextId,
            handlers, lastReload>>
loginVars == <<userId, password, isLoading, loginTimer, localStorage, path,
               loginToast>>
vars == <<calcVars, aggVars, sbVars, loginVars>>

\* what the actions of one component leave alone
outsideCalc == <<aggVars, sbVars, loginVars>>
outsideAgg == <<calcVars, sbVars, loginVars>>
outsideSb == <<calcVars, aggVars, loginVars>>
outsideLogin == <<calcVars, aggVars, sbVars>>

----------------------------------------------------------------------------
(* Bounds of the model *)

\* longest in-memory list the simplified variant may hold
MaxExpenses == 2
\* last value of the millisecond clock Date.now()
MaxClock == 2
\* longest expenses prop handed to the aggregation
MaxRecords == 3
\* async handlers the Supabase-backed component starts, the mount's
\* loadExpenses included
MaxHandlers == 2
\* longest expenses prop handed to the Top Spending Categories list
MaxTopRecords == 6

----------------------------------------------------------------------------
(* Values *)

\* editingId is string | null
NULL == "null"

EXPENSE_CATEGORIES ==
    << "Food & Dining", "Transportation", "Shopping", "Entertainment",
       "Bills & Utilities", "Healthcare", "Travel", "Education",
       "Business", "Other" >>

\* the categories the model selects in the form
FormCategories == {EXPENSE_CATEGORIES[1], EXPENSE_CATEGORIES[2]}

\* what an <input type="number"> may hold besides the empty string
AmountValues == {-1, 0, 1, 2}
\* the amounts the model types into the form
FormAmounts == {-1, 0, 2}
AmountStrings == {ToString(n) : n \in FormAmounts}

Descriptions == {"lunch"}
Dates == {"2024-01-05", "2024-02-10"}

\* new Date().toISOString().split('T')[0]: every clock value of the model
\* lies within one UTC day
today == "2024-02-10"

\* parseFloat of the text of a number input
parseFloat(s) == CHOOSE n \in AmountValues : ToString(n) = s

\* Number.prototype.toString
numberToString(n) == ToString(n)

NoToast == [title |-> "", description |-> "", variant |-> "none"]
Toast(t, d, v) == [title |-> t, description |-> d, variant |-> v]

----------------------------------------------------------------------------
(* JavaScript numbers produced by a division: a rational n/d, NaN or       *)
(* +-Infinity                                                              *)

Fin(n, d) == [k |-> "fin", n |-> n, d |-> d]
NaN == [k |-> "NaN", n |-> 0, d |-> 0]
Infinity(sign) == [k |-> "Infinity", n |-> sign, d |-> 0]

\* a / b for whole numbers a, b
jsDiv(a, b) ==
    IF b = 0
    THEN IF a = 0 THEN NaN ELSE Infinity(IF a > 0 THEN 1 ELSE -1)
    ELSE Fin(a, b)

\* x * 100
jsTimes100(x) == IF x.k = "fin" THEN Fin(x.n * 100, x.d) ELSE x

\* x + y
jsAdd(x, y) ==
    IF x.k = "NaN" \/ y.k = "NaN" THEN NaN
    ELSE IF x.k = "Infinity" /\ y.k = "Infinity"
         THEN IF x.n = y.n THEN x ELSE NaN
    ELSE IF x.k = "Infinity" THEN x
    ELSE IF y.k = "Infinity" THEN y
    ELSE Fin(x.n * y.d + y.n * x.d, x.d * y.d)

\* x === y
jsEq(x, y) ==
    \/ x.k = "fin" /\ y.k = "fin" /\ x.n * y.d = y.n * x.d
    \/ x.k = "Infinity" /\ y.k = "Infinity" /\ x.n = y.n

RECURSIVE SumAmounts(_)
\* list.reduce((sum, exp) => sum + exp.amount, 0)
SumAmounts(list) ==
    IF list = << >> THEN 0 ELSE Head(list).amount + SumAmounts(Tail(list))

\* list.filter(exp => exp.category === c)
FilterByCategory(list, c) == SelectSeq(list, LAMBDA exp : exp.category = c)

----------------------------------------------------------------------------
(* ExpenseCharts: category distribution *)

Min(S) == CHOOSE x \in S : \A y \in S : x <= y

\* a mutation of categoryStep: an existing entry is overwritten, not added to
categoryStep_overwrite(acc, expense) ==
    LET found == {i \in 1..Len(acc) : acc[i].category = expense.category}
    IN  IF found # {}
        THEN [acc EXCEPT ![Min(found)].amount = expense.amount]
        ELSE Append(acc, [category |-> expense.category,
                          amount |-> expense.amount,
                          percentage |-> Fin(0, 1)])

\* the reducer of categoryData: acc.find(...) then += or push
categoryStep(acc, expense) ==
    LET found == {i \in 1..Len(acc) : acc[i].category = expense.category}
    IN  IF found # {}
        THEN [acc EXCEPT ![Min(found)].amount = @ + expense.amount]
        ELSE Append(acc, [category |-> expense.category,
                          amount |-> expense.amount,
                          percentage |-> Fin(0, 1)])

RECURSIVE categoryReduce(_, _)
categoryReduce(acc, list) ==
    IF list = << >> THEN acc
    ELSE categoryReduce(categoryStep(acc, Head(list)), Tail(list))

\* totalAmount of ExpenseCharts: the sum over categoryData
chartsTotalAmount(data) == SumAmounts(data)

\* item.percentage = totalAmount > 0 ? (item.amount / totalAmount) * 100 : 0
percentageOf(amount, totalAmount) ==
    IF totalAmount > 0 THEN jsTimes100(jsDiv(amount, totalAmount)) ELSE Fin(0, 1)

\* categoryData after the forEach that fills in the percentages
CategoryData(list) ==
    LET data == categoryReduce(<< >>, list)
        totalAmount == chartsTotalAmount(data)
    IN  [i \in 1..Len(data) |->
            [data[i] EXCEPT !.percentage = percentageOf(data[i].amount, totalAmount)]]

----------------------------------------------------------------------------
(* ExpenseCharts: Top Spending Categories *)

\* the 5 of .slice(0, 5)
TopCount == 5

RECURSIVE insertByAmountDesc(_, _)
\* item put into a list in descending amount order, after its equals
insertByAmountDesc(sorted, item) ==
    IF sorted = << >> THEN << item >>
    ELSE IF Head(sorted).amount >= item.amount
         THEN << Head(sorted) >> \o insertByAmountDesc(Tail(sorted), item)
         ELSE << item >> \o sorted

RECURSIVE sortByAmountDesc(_)
\* categoryData.sort((a, b) => b.amount - a.amount)
sortByAmountDesc(data) ==
    IF data = << >> THEN << >>
    ELSE insertByAmountDesc(sortByAmountDesc(SubSeq(data, 1, Len(data) - 1)),
                            data[Len(data)])

\* a mutation of sliceTop: every category is listed
sliceTop_all(data) == data

\* .slice(0, 5)
sliceTop(data) == SubSeq(data, 1, Min({TopCount, Len(data)}))

\* the entries under Top Spending Categories
TopCategories(list) == sliceTop(sortByAmountDesc(CategoryData(list)))

----------------------------------------------------------------------------
(* Dates: new Date("YYYY-MM-DD") is midnight UTC of that day, new Date() is  *)
(* the present instant, getFullYear/getMonth/getDate/setDate read and write  *)
(* the local calendar.  An instant is a whole number of hours; daylight      *)
(* saving changes are outside the model.                                     *)

\* the dates of the expenses handed to the trend charts: the same month of
\* another year, 30 days before today, the first of this month, today, the
\* first of next month
TrendDates ==
    {"2023-02-10", "2024-01-11", "2024-02-01", "2024-02-10", "2024-03-01"}

\* the year, month and day an ISO date string spells
DateTable ==
    ("2023-02-10" :> [y |-> 2023, m |-> 2, d |-> 10]) @@
    ("2024-01-05" :> [y |-> 2024, m |-> 1, d |-> 5]) @@
    ("2024-01-11" :> [y |-> 2024, m |-> 1, d |-> 11]) @@
    ("2024-02-01" :> [y |-> 2024, m |-> 2, d |-> 1]) @@
    ("2024-02-10" :> [y |-> 2024, m |-> 2, d |-> 10]) @@
    ("2024-03-01" :> [y |-> 2024, m |-> 3, d |-> 1])

isLeapYear(y) == (y % 4 = 0 /\ y % 100 # 0) \/ y % 400 = 0

daysInMonth(y, m) ==
    IF m = 2 THEN (IF isLeapYear(y) THEN 29 ELSE 28)
    ELSE IF m \in {4, 6, 9, 11} THEN 30 ELSE 31

\* days of the year y that precede its month m
daysBeforeMonth(y, m) ==
    << 0, 31, 59, 90, 120, 151, 181, 212, 243, 273, 304, 334 >>[m]
        + (IF m > 2 /\ isLeapYear(y) THEN 1 ELSE 0)

\* the number of the day in the proleptic Gregorian calendar
dayNumber(p) ==
    365 * (p.y - 1) + ((p.y - 1) \div 4) - ((p.y - 1) \div 100)
        + ((p.y - 1) \div 400) + daysBeforeMonth(p.y, p.m) + p.d

\* Date.prototype.getTime, in hours, of the instant `hour` hours into the
\* UTC day p
getTime(p, hour) == dayNumber(p) * 24 + hour

prevDay(p) ==
    IF p.d > 1 THEN [p EXCEPT !.d = p.d - 1]
    ELSE IF p.m > 1 THEN [p EXCEPT !.m = p.m - 1,
                                   !.d = daysInMonth(p.y, p.m - 1)]
    ELSE [y |-> p.y - 1, m |-> 12, d |-> 31]

nextDay(p) ==
    IF p.d < daysInMonth(p.y, p.m) THEN [p EXCEPT !.d = p.d + 1]
    ELSE IF p.m < 12 THEN [p EXCEPT !.m = p.m + 1, !.d = 1]
    ELSE [y |-> p.y + 1, m |-> 1, d |-> 1]

\* the local calendar day of the instant `hour` hours into the UTC day p, in
\* a time zone tz hours ahead of UTC (less than a day either way)
localDay(p, hour, tz) ==
    IF hour + tz < 0 THEN prevDay(p)
    ELSE IF hour + tz >= 24 THEN nextDay(p)
    ELSE p

\* new Date(expense.date) read through the local calendar
localDayOfDate(date, tz) == localDay(DateTable[date], 0, tz)

\* Date.prototype.getFullYear and getMonth (0 for January)
getFullYear(p) == p.y
getMonth(p) == p.m - 1

----------------------------------------------------------------------------
(* ExpenseCharts: monthly trend and daily expenses.  The display strings    *)
(* (month, displayDate) are left out.                                       *)

\* `${date.getFullYear()}-${String(date.getMonth() + 1).padStart(2, '0')}`,
\* its two numbers kept apart
monthKey(p) == [year |-> getFullYear(p), month |-> getMonth(p) + 1]

\* a.monthKey.localeCompare(b.monthKey) <= 0: with four-digit years and
\* zero-padded months the order of the strings is the order of the numbers
monthKeyLeq(a, b) ==
    a.year < b.year \/ (a.year = b.year /\ a.month <= b.month)

\* the reducer of monthlyData, in a time zone tz hours ahead of UTC
monthlyStep(acc, expense, tz) ==
    LET key == monthKey(localDayOfDate(expense.date, tz))
        found == {i \in 1..Len(acc) : acc[i].monthKey = key}
    IN  IF found # {}
        THEN [acc EXCEPT ![Min(found)].amount = @ + expense.amount,
                         ![Min(found)].count = @ + 1]
        ELSE Append(acc, [monthKey |-> key, amount |-> expense.amount,
                          count |-> 1])

RECURSIVE monthlyReduce(_, _, _)
monthlyReduce(acc, list, tz) ==
    IF list = << >> THEN acc
    ELSE monthlyReduce(monthlyStep(acc, Head(list), tz), Tail(list), tz)

RECURSIVE insertByMonthKey(_, _)
\* item put into a list in ascending monthKey order, after its equals
insertByMonthKey(sorted, item) ==
    IF sorted = << >> THEN << item >>
    ELSE IF monthKeyLeq(Head(sorted).monthKey, item.monthKey)
         THEN << Head(sorted) >> \o insertByMonthKey(Tail(sorted), item)
         ELSE << item >> \o sorted

\* a mutation of sortByMonthKey: the groups stay in the order they were made
sortByMonthKey_unsorted(data) == data

RECURSIVE sortByMonthKey(_)
\* monthlyData.sort((a, b) => a.monthKey.localeCompare(b.monthKey))
sortByMonthKey(data) ==
    IF data = << >> THEN << >>
    ELSE insertByMonthKey(sortByMonthKey(SubSeq(data, 1, Len(data) - 1)),
                          data[Len(data)])

\* monthlyData as the charts draw it
MonthlyData(list, tz) == sortByMonthKey(monthlyReduce(<< >>, list, tz))

\* expenseDate >= thirtyDaysAgo, thirtyDaysAgo being the present instant
\* (hour hours into today) with its day of the month set back by 30
inLast30Days(date, hour) ==
    getTime(DateTable[date], 0) >= getTime(DateTable[today], hour) - 30 * 24

\* the reducer of dailyData
dailyStep(acc, expense) ==
    LET found == {i \in 1..Len(acc) : acc[i].date = expense.date}
    IN  IF found # {}
        THEN [acc EXCEPT ![Min(found)].amount = @ + expense.amount]
        ELSE Append(acc, [date |-> expense.date, amount |-> expense.amount])

RECURSIVE dailyReduce(_, _)
dailyReduce(acc, list) ==
    IF list = << >> THEN acc
    ELSE dailyReduce(dailyStep(acc, Head(list)), Tail(list))

\* a.date.localeCompare(b.date) <= 0: the order of ISO date strings is the
\* order of the days they spell
dateLeq(a, b) == dayNumber(DateTable[a]) <= dayNumber(DateTable[b])

RECURSIVE insertByDate(_, _)
\* item put into a list in ascending date order, after its equals
insertByDate(sorted, item) ==
    IF sorted = << >> THEN << item >>
    ELSE IF dateLeq(Head(sorted).date, item.date)
         THEN << Head(sorted) >> \o insertByDate(Tail(sorted), item)
         ELSE << item >> \o sorted

RECURSIVE sortByDate(_)
\* dailyData.sort((a, b) => a.date.localeCompare(b.date))
sortByDate(data) ==
    IF data = << >> THEN << >>
    ELSE insertByDate(sortByDate(SubSeq(data, 1, Len(data) - 1)),
                      data[Len(data)])

\* a mutation of DailyData: an empty chart gets a row for today
DailyData_todayRow(list, hour) ==
    IF list = << >> THEN << [date |-> today, amount |-> 0] >>
    ELSE dailyReduce(<< >>, list)

\* dailyData as the charts draw it, hour hours into today
DailyData(list, hour) ==
    sortByDate(dailyReduce(<< >>,
        SelectSeq(list, LAMBDA expense : inLast30Days(expense.date, hour))))

----------------------------------------------------------------------------
(* ExpenseCalculator: derived values of a render *)

\* a mutation of filteredExpenses: the filter is ignored
filteredExpenses_unfiltered(list, filter) == list

\* filteredExpenses
filteredExpenses(list, filter) ==
    IF filter = "all" THEN list ELSE FilterByCategory(list, filter)

\* totalAmount: the sum over filteredExpenses
totalAmount(list, filter) == SumAmounts(filteredExpenses(list, filter))

\* the "This Month" card: the expenses whose local month is the local month
\* of the present instant, summed
thisMonthTotal(list, hour, tz) ==
    SumAmounts(SelectSeq(list, LAMBDA exp :
        getMonth(localDayOfDate(exp.date, tz))
            = getMonth(localDay(DateTable[today], hour, tz))))

\* a mutation of totalsStep: the previous sum of the category is dropped
totalsStep_overwrite(acc, exp) ==
    [c \in DOMAIN acc \cup {exp.category} |->
        IF c = exp.category THEN exp.amount ELSE acc[c]]

\* acc[exp.category] = (acc[exp.category] || 0) + exp.amount
totalsStep(acc, exp) ==
    [c \in DOMAIN acc \cup {exp.category} |->
        IF c = exp.category
        THEN (IF c \in DOMAIN acc THEN acc[c] ELSE 0) + exp.amount
        ELSE acc[c]]

RECURSIVE totalsReduce(_, _)
totalsReduce(acc, list) ==
    IF list = << >> THEN acc
    ELSE totalsReduce(totalsStep(acc, Head(list)), Tail(list))

\* categoryTotals: Record<string, number>
CategoryTotals(list) == totalsReduce(<< >>, list)

\* the share printed in the Category Breakdown: (amount / totalAmount) * 100
breakdownShare(list, filter, category) ==
    jsTimes100(jsDiv(CategoryTotals(list)[category], totalAmount(list, filter)))

----------------------------------------------------------------------------
(* ExpenseCalculator.tsx: the in-memory variant *)

EmptyForm == [amount |-> "", category |-> "", description |-> "", date |-> today]

\* useState initial values
InitCalc ==
    /\ expenses = << >>
    /\ form = EmptyForm
    /\ editingId = NULL
    /\ filterCategory = "all"
    /\ now = 1
    /\ toast = NoToast

\* the clock Date.now() reads advances between events, or does not
Tick ==
    /\ now < MaxClock
    /\ now' = now + 1
    /\ UNCHANGED <<expenses, form, editingId, filterCategory, toast, outsideCalc>>

\* onChange of the amount input
setFormAmount(value) ==
    /\ form' = [form EXCEPT !.amount = value]
    /\ UNCHANGED <<expenses, editingId, filterCategory, now, toast, outsideCalc>>

\* onValueChange of the category select
setFormCategory(value) ==
    /\ form' = [form EXCEPT !.category = value]
    /\ UNCHANGED <<expenses, editingId, filterCategory, now, toast, outsideCalc>>

\* onChange of the description input
setFormDescription(value) ==
    /\ form' = [form EXCEPT !.description = value]
    /\ UNCHANGED <<expenses, editingId, filterCategory, now, toast, outsideCalc>>

\* onChange of the date input
setFormDate(value) ==
    /\ form' = [form EXCEPT !.date = value]
    /\ UNCHANGED <<expenses, editingId, filterCategory, now, toast, outsideCalc>>

\* onValueChange of the filter select
setFilterCategory(value) ==
    /\ filterCategory' = value
    /\ UNCHANGED <<expenses, form, editingId, now, toast, outsideCalc>>

\* prev.map(exp => exp.id === editingId ? expense : exp)
replaceById(prev, id, expense) ==
    [i \in 1..Len(prev) |-> IF prev[i].id = id THEN expense ELSE prev[i]]

\* prev.filter(exp => exp.id !== id)
removeById(prev, id) == SelectSeq(prev, LAMBDA exp : exp.id # id)

\* the id of a submitted expense: editingId || Date.now().toString()
submitId == IF editingId # NULL THEN editingId ELSE numberToString(now)

\* the expense built from the form by handleSubmit
submitExpense ==
    [id |-> submitId,
     amount |-> parseFloat(form.amount),
     category |-> form.category,
     description |-> form.description,
     date |-> form.date]

\* a mutation of formInvalid: only the amount is required
formInvalid_amountOnly(f) == f.amount = ""

\* !form.amount || !form.category || !form.description
formInvalid(f) == f.amount = "" \/ f.category = "" \/ f.description = ""

handleSubmit ==
    /\ (~formInvalid(form) /\ editingId = NULL) => Len(expenses) < MaxExpenses
    /\ IF formInvalid(form)
       THEN /\ toast' = Toast("Validation Error",
                              "Please fill in all required fields.", "destructive")
            /\ UNCHANGED <<expenses, form, editingId>>
       ELSE /\ IF editingId # NULL
               THEN /\ expenses' = replaceById(expenses, editingId, submitExpense)
                    /\ editingId' = NULL
                    /\ toast' = Toast("Success", "Expense updated successfully!",
                                      "default")
               ELSE /\ expenses' = Append(expenses, submitExpense)
                    /\ UNCHANGED editingId
                    /\ toast' = Toast("Success", "Expense added successfully!",
                                      "default")
            /\ form' = EmptyForm
    /\ UNCHANGED <<filterCategory, now, outsideCalc>>

\* the Edit button of a listed expense
handleEdit(expense) ==
    /\ form' = [amount |-> numberToString(expense.amount),
                category |-> expense.category,
                description |-> expense.description,
                date |-> expense.date]
    /\ editingId' = expense.id
    /\ UNCHANGED <<expenses, filterCategory, now, toast, outsideCalc>>

\* the Delete button of a listed expense
handleDelete(id) ==
    /\ expenses' = removeById(expenses, id)
    /\ toast' = Toast("Success", "Expense deleted successfully!", "default")
    /\ UNCHANGED <<form, editingId, filterCategory, now, outsideCalc>>

\* the expenses the list shows, each with its Edit and Delete button
Listed ==
    LET shown == filteredExpenses(expenses, filterCategory)
    IN  {shown[i] : i \in 1..Len(shown)}

NextCalc ==
    \/ Tick
    \/ \E value \in AmountStrings \cup {""} : setFormAmount(value)
    \/ \E value \in FormCategories : setFormCategory(value)
    \/ \E value \in Descriptions \cup {""} : setFormDescription(value)
    \/ \E value \in Dates : setFormDate(value)
    \/ \E value \in FormCategories \cup {"all"} : setFilterCategory(value)
    \/ handleSubmit
    \/ \E expense \in Listed : handleEdit(expense)
    \/ \E expense \in Listed : handleDelete(expense.id)

----------------------------------------------------------------------------
(* The aggregation as a function of the expenses prop *)

\* the expenses a list handed to the charts is made of
ChartsFields == [amount : AmountValues, category : FormCategories, date : Dates]

\* the i-th expense of a list, with the fields f
ChartsExpense(i, f) ==
    [id |-> numberToString(i), amount |-> f.amount, category |-> f.category,
     description |-> "lunch", date |-> f.date]

\* the category filters a render may find selected
Filters == FormCategories \cup {"all"}

\* the hours of the UTC day at which the model renders: midnight and noon
NowHours == {0, 12}

\* the time zones of the model, in hours ahead of UTC
TimeZones == {-5, 0, 5}

\* the summary cards before anything was rendered
NoSummary == [totalAmount |-> 0, entries |-> 0, thisMonth |-> 0]

\* the cards Total Expenses, Total Entries and This Month
Summary(list, filter, hour, tz) ==
    [totalAmount |-> totalAmount(list, filter),
     entries |-> Len(filteredExpenses(list, filter)),
     thisMonth |-> thisMonthTotal(list, hour, tz)]

\* the page mounted with a list that is still empty, in one of the given
\* environments
InitCharts(filters, hours, zones) ==
    /\ props = << >>
    /\ rendered = FALSE
    /\ categoryData = << >>
    /\ categoryTotals = << >>
    /\ monthlyData = << >>
    /\ dailyData = << >>
    /\ summary = NoSummary
    /\ topCategories = << >>
    /\ propsFilter \in filters
    /\ nowHour \in hours
    /\ timeZone \in zones

\* the category aggregation: any filter, at noon UTC in a browser on UTC
InitAgg == InitCharts(Filters, {12}, {0})

\* what a render derives from a list
Derive(list) ==
    /\ categoryData' = CategoryData(list)
    /\ categoryTotals' = CategoryTotals(list)
    /\ monthlyData' = MonthlyData(list, timeZone)
    /\ dailyData' = DailyData(list, nowHour)
    /\ summary' = Summary(list, propsFilter, nowHour, timeZone)
    /\ topCategories' = TopCategories(list)

\* the render of ExpenseCharts, the category breakdown and the summary cards
\* for the props
Render ==
    /\ Derive(props)
    /\ rendered' = TRUE
    /\ UNCHANGED <<props, propsFilter, nowHour, timeZone, outsideAgg>>

\* the parent passes a list with one more expense, which is rendered at once
Rerender(list) ==
    /\ rendered
    /\ props' = list
    /\ Derive(list)
    /\ UNCHANGED <<rendered, propsFilter, nowHour, timeZone, outsideAgg>>

NextAgg ==
    \/ Render
    \/ \E f \in ChartsFields :
            /\ Len(props) < MaxRecords
            /\ Rerender(Append(props, ChartsExpense(Len(props) + 1, f)))

\* the expenses a list handed to the trend charts is made of
TrendFields ==
    [amount : {1, 2}, category : {EXPENSE_CATEGORIES[1]}, date : TrendDates]

\* the i-th expense of a list handed to the Top Spending Categories list: of
\* the i-th category or of the first one again
TopFields(i) ==
    [amount : {-1, 1, 2},
     category : {EXPENSE_CATEGORIES[i], EXPENSE_CATEGORIES[1]},
     date : {today}]

\* the Top Spending Categories list: at noon UTC in a browser on UTC
InitTop == InitCharts({"all"}, {12}, {0})

NextTop ==
    \/ Render
    \/ \E f \in TopFields(Len(props) + 1) :
            /\ Len(props) < MaxTopRecords
            /\ Rerender(Append(props, ChartsExpense(Len(props) + 1, f)))

\* the trend charts and the summary cards: any filter, hour and time zone
InitTrend == InitCharts(Filters, NowHours, TimeZones)

NextTrend ==
    \/ Render
    \/ \E f \in TrendFields :
            /\ Len(props) < MaxRecords
            /\ Rerender(Append(props, ChartsExpense(Len(props) + 1, f)))

----------------------------------------------------------------------------
(* part_000: the Supabase-backed variant *)

\* the user auth.getUser() resolves
UserId == "u1"

\* the users a session may belong to when handleSubmit asks for its user
Users == {UserId, "u2"}

\* the rows of the expenses table when the component mounts
InitialRows ==
    << [id |-> "1", amount |-> 1, category |-> EXPENSE_CATEGORIES[1],
        description |-> "lunch", date |-> "2024-02-10", user_id |-> UserId],
       [id |-> "2", amount |-> 1, category |-> EXPENSE_CATEGORIES[2],
        description |-> "lunch", date |-> "2024-01-05", user_id |-> UserId] >>

\* ISO dates in ascending order: their string order is their calendar order
DateOrder == << "2024-01-05", "2024-02-10" >>
dateRank(d) == CHOOSE i \in 1..Len(DateOrder) : DateOrder[i] = d

RECURSIVE insertByDateDesc(_, _)
\* row put into a list ordered by date descending, after the rows of its date
insertByDateDesc(sorted, row) ==
    IF sorted = << >> THEN << row >>
    ELSE IF dateRank(Head(sorted).date) >= dateRank(row.date)
         THEN << Head(sorted) >> \o insertByDateDesc(Tail(sorted), row)
         ELSE << row >> \o sorted

RECURSIVE orderByDateDesc(_)
\* .select('*').order('date', { ascending: false })
orderByDateDesc(rows) ==
    IF rows = << >> THEN << >>
    ELSE insertByDateDesc(orderByDateDesc(SubSeq(rows, 1, Len(rows) - 1)),
                          rows[Len(rows)])

\* .update(fields).eq('id', id)
updateRows(rows, id, fields) ==
    [i \in 1..Len(rows) |->
        IF rows[i].id = id
        THEN [rows[i] EXCEPT !.amount = fields.amount,
                             !.category = fields.category,
                             !.description = fields.description,
                             !.date = fields.date]
        ELSE rows[i]]

\* .insert({...fields, user_id}), the table generating the id
insertRow(rows, id, fields) ==
    Append(rows, [id |-> id, amount |-> fields.amount,
                  category |-> fields.category,
                  description |-> fields.description,
                  date |-> fields.date, user_id |-> fields.user_id])

\* .delete().eq('id', id)
deleteRows(rows, id) == SelectSeq(rows, LAMBDA row : row.id # id)

Handlers == 1..MaxHandlers

NoFields == [amount |-> 0, category |-> "", description |-> "", date |-> "",
             user_id |-> ""]
NoRequest == [id |-> NULL, fields |-> NoFields]

\* a handler that has not been started.  kind, pc, req and reply are the
\* invocation's position and locals; the other fields record what it did:
\* before (the list when it started), toasts (the variants it raised),
\* mutation (the outcome of its update, insert or delete), loadCalled
\* (it called loadExpenses), auth (what getUser resolved in loadExpenses),
\* selectSent (its list request was sent), failed (its update, insert,
\* delete or list request returned an error or threw), signOut (the outcome
\* of its auth.signOut())
IdleHandler ==
    [kind |-> "none", pc |-> "idle", req |-> NoRequest, reply |-> << >>,
     before |-> << >>, toasts |-> {}, mutation |-> "none",
     loadCalled |-> FALSE, auth |-> "unasked", selectSent |-> FALSE,
     failed |-> FALSE, signOut |-> "uncalled"]

\* a handler invoked with the list as it is now
started(kind) == [IdleHandler EXCEPT !.kind = kind, !.before = sbExpenses]

\* toast({ variant, ... })
raise(r, variant) == [r EXCEPT !.toasts = @ \cup {variant}]

\* the handler returns: its locals are gone, what it did stays on record
return(r) ==
    [r EXCEPT !.pc = "done", !.req = NoRequest, !.reply = << >>,
              !.before = << >>]

\* the update, insert, delete or list request of the handler returned an
\* error or threw
fail(r) == [r EXCEPT !.failed = TRUE]

\* a mutation of callLoadExpenses: the handler returns without reloading
callLoadExpenses_skipped(r) == return(r)

\* await loadExpenses(): its first await is auth.getUser()
callLoadExpenses(r) ==
    [r EXCEPT !.pc = "loadGetUser", !.loadCalled = TRUE, !.auth = "pending"]

\* the form as handleSubmit sends it: parseFloat(form.amount), ...
formFields(f, user) ==
    [amount |-> parseFloat(f.amount), category |-> f.category,
     description |-> f.description, date |-> f.date, user_id |-> user]

\* the slot of the next handler to start
Free == {h \in Handlers : handlers[h].pc = "idle"}

\* useState initial values, the useEffect of the mount having called
\* loadExpenses
InitSb ==
    /\ sbExpenses = << >>
    /\ sbForm = EmptyForm
    /\ sbEditingId = NULL
    /\ loading = TRUE
    /\ route = "/"
    /\ store = InitialRows
    /\ nextId = Len(InitialRows) + 1
    /\ handlers = [h \in Handlers |->
                      IF h = 1 THEN callLoadExpenses(started("mount"))
                      ELSE IdleHandler]
    /\ lastReload = "none"

\* the component before it is mounted
SbIdle ==
    /\ sbExpenses = << >>
    /\ sbForm = EmptyForm
    /\ sbEditingId = NULL
    /\ loading = TRUE
    /\ route = "/"
    /\ store = << >>
    /\ nextId = 1
    /\ handlers = [h \in Handlers |-> IdleHandler]
    /\ lastReload = "none"

\* onChange of the amount input
sbSetFormAmount(value) ==
    /\ route = "/"
    /\ sbForm' = [sbForm EXCEPT !.amount = value]
    /\ UNCHANGED <<sbExpenses, sbEditingId, loading, route, store, nextId,
                   handlers, lastReload, outsideSb>>

\* onValueChange of the category select
sbSetFormCategory(value) ==
    /\ route = "/"
    /\ sbForm' = [sbForm EXCEPT !.category = value]
    /\ UNCHANGED <<sbExpenses, sbEditingId, loading, route, store, nextId,
                   handlers, lastReload, outsideSb>>

\* onChange of the description input
sbSetFormDescription(value) ==
    /\ route = "/"
    /\ sbForm' = [sbForm EXCEPT !.description = value]
    /\ UNCHANGED <<sbExpenses, sbEditingId, loading, route, store, nextId,
                   handlers, lastReload, outsideSb>>

\* the Edit button of a listed expense
sbHandleEdit(expense) ==
    /\ route = "/"
    /\ sbForm' = [amount |-> numberToString(expense.amount),
                  category |-> expense.category,
                  description |-> expense.description,
                  date |-> expense.date]
    /\ sbEditingId' = expense.id
    /\ UNCHANGED <<sbExpenses, loading, route, store, nextId, handlers,
                   lastReload, outsideSb>>

\* handleSubmit up to its first await: validation, then the update request
\* or auth.getUser().  The closure keeps the form and editingId of the render
\* it was created in.
sbHandleSubmit ==
    /\ route = "/"
    /\ Free # {}
    /\ LET h == Min(Free)
           r == started("submit")
       IN  handlers' = [handlers EXCEPT ![h] =
               IF formInvalid(sbForm)
               THEN return(raise(r, "destructive"))
               ELSE IF sbEditingId # NULL
               THEN [r EXCEPT !.pc = "update", !.mutation = "pending",
                              !.req = [id |-> sbEditingId,
                                       fields |-> formFields(sbForm, "")]]
               ELSE [r EXCEPT !.pc = "getUser",
                              !.req = [id |-> NULL,
                                       fields |-> formFields(sbForm, "")]]]
    /\ UNCHANGED <<sbExpenses, sbForm, sbEditingId, loading, route, store,
                   nextId, lastReload, outsideSb>>

\* a mutation of editingIdAfterUpdate: editingId is cleared whatever the
\* update request returned
editingIdAfterUpdate_always(outcome, id) == NULL

\* editingId once the update request has returned: setEditingId(null) comes
\* after the `if (error) ... return`
editingIdAfterUpdate(outcome, id) == IF outcome = "ok" THEN NULL ELSE id

\* the update request is served and handleSubmit resumes
sbUpdateReturns(h, outcome) ==
    /\ handlers[h].pc = "update"
    /\ sbEditingId' = editingIdAfterUpdate(outcome, sbEditingId)
    /\ LET r == handlers[h]
       IN  IF outcome = "ok"
           THEN /\ store' = updateRows(store, r.req.id, r.req.fields)
                /\ handlers' = [handlers EXCEPT ![h] =
                       callLoadExpenses(raise([r EXCEPT !.mutation = "ok"],
                                              "default"))]
           ELSE /\ handlers' = [handlers EXCEPT ![h] =
                       return(fail(raise([r EXCEPT !.mutation = outcome],
                                         "destructive")))]
                /\ UNCHANGED store
    /\ UNCHANGED <<sbExpenses, sbForm, loading, route, nextId, lastReload,
                   outsideSb>>

\* a mutation of insertOwner: the insert is sent for the first user
insertOwner_fixed(user) == UserId

\* user_id: user.id
insertOwner(user) == user

\* auth.getUser() of the create branch resolves (a user, none, or it throws)
\* and the insert is sent
sbGetUserReturns(h, outcome) ==
    /\ handlers[h].pc = "getUser"
    /\ LET r == handlers[h]
       IN  /\ handlers' = [handlers EXCEPT ![h] =
                  IF outcome \in Users
                  THEN [r EXCEPT !.pc = "insert", !.mutation = "pending",
                                 !.req.fields.user_id = insertOwner(outcome)]
                  ELSE IF outcome = "none"
                  THEN return(r)
                  ELSE return(raise(r, "destructive"))]
           /\ route' = IF outcome = "none" THEN "/login" ELSE route
    /\ UNCHANGED <<sbExpenses, sbForm, sbEditingId, loading, store, nextId,
                   lastReload, outsideSb>>

\* the insert request is served and handleSubmit resumes
sbInsertReturns(h, outcome) ==
    /\ handlers[h].pc = "insert"
    /\ LET r == handlers[h]
       IN  IF outcome = "ok"
           THEN /\ store' = insertRow(store, numberToString(nextId), r.req.fields)
                /\ nextId' = nextId + 1
                /\ handlers' = [handlers EXCEPT ![h] =
                       callLoadExpenses(raise([r EXCEPT !.mutation = "ok"],
                                              "default"))]
           ELSE /\ handlers' = [handlers EXCEPT ![h] =
                       return(fail(raise([r EXCEPT !.mutation = outcome],
                                         "destructive")))]
                /\ UNCHANGED <<store, nextId>>
    /\ UNCHANGED <<sbExpenses, sbForm, sbEditingId, loading, route,
                   lastReload, outsideSb>>

\* the Delete button of a listed expense: the delete request is sent
sbHandleDelete(id) ==
    /\ route = "/"
    /\ Free # {}
    /\ handlers' = [handlers EXCEPT ![Min(Free)] =
           [started("delete") EXCEPT !.pc = "delete", !.mutation = "pending",
                                     !.req = [id |-> id, fields |-> NoFields]]]
    /\ UNCHANGED <<sbExpenses, sbForm, sbEditingId, loading, route, store,
                   nextId, lastReload, outsideSb>>

\* the delete request is served and handleDelete resumes
sbDeleteReturns(h, outcome) ==
    /\ handlers[h].pc = "delete"
    /\ LET r == handlers[h]
       IN  IF outcome = "ok"
           THEN /\ store' = deleteRows(store, r.req.id)
                /\ handlers' = [handlers EXCEPT ![h] =
                       callLoadExpenses(raise([r EXCEPT !.mutation = "ok"],
                                              "default"))]
           ELSE /\ handlers' = [handlers EXCEPT ![h] =
                       return(fail(raise([r EXCEPT !.mutation = outcome],
                                         "destructive")))]
                /\ UNCHANGED store
    /\ UNCHANGED <<sbExpenses, sbForm, sbEditingId, loading, route, nextId,
                   lastReload, outsideSb>>

\* the Logout button: the sign-out request is sent
sbHandleLogout ==
    /\ route = "/"
    /\ Free # {}
    /\ handlers' = [handlers EXCEPT ![Min(Free)] =
           [started("logout") EXCEPT !.pc = "signOut",
                                     !.signOut = "pending"]]
    /\ UNCHANGED <<sbExpenses, sbForm, sbEditingId, loading, route, store,
                   nextId, lastReload, outsideSb>>

\* a mutation of routeAfterSignOut: navigate('/login') in every branch
routeAfterSignOut_always(outcome, current) == "/login"

\* the route after handleLogout resumed: navigate('/login') is called in the
\* else branch of `if (error)` only
routeAfterSignOut(outcome, current) ==
    IF outcome = "ok" THEN "/login" ELSE current

\* auth.signOut() returns and handleLogout resumes
sbSignOutReturns(h, outcome) ==
    /\ handlers[h].pc = "signOut"
    /\ handlers' = [handlers EXCEPT ![h] =
           return(raise([@ EXCEPT !.signOut = outcome],
                        IF outcome = "ok" THEN "default" ELSE "destructive"))]
    /\ route' = routeAfterSignOut(outcome, route)
    /\ UNCHANGED <<sbExpenses, sbForm, sbEditingId, loading, store, nextId,
                   lastReload, outsideSb>>

\* what follows `await loadExpenses()` in the caller: handleSubmit resets the
\* form, the mount and handleDelete do nothing more
formAfterLoad(kind, f) == IF kind = "submit" THEN EmptyForm ELSE f

\* a mutation of expensesAfterLoadError: the error branch stores data || []
expensesAfterLoadError_cleared(prev) == << >>

\* the list after loadExpenses took its error branch or its catch: neither
\* calls setExpenses
expensesAfterLoadError(prev) == prev

\* auth.getUser() of loadExpenses resolves: the list request is sent, or the
\* user is sent to /login, or the catch raises a toast
loadExpenses_getUserReturns(h, outcome) ==
    /\ handlers[h].pc = "loadGetUser"
    /\ LET r == [handlers[h] EXCEPT !.auth = outcome]
       IN  IF outcome = "user"
           THEN /\ handlers' = [handlers EXCEPT ![h] =
                       [r EXCEPT !.pc = "select", !.selectSent = TRUE]]
                /\ UNCHANGED <<sbExpenses, sbForm, loading, route, lastReload>>
           ELSE /\ handlers' = [handlers EXCEPT ![h] =
                       IF outcome = "none" THEN return(r)
                       ELSE return(raise(r, "destructive"))]
                /\ route' = IF outcome = "none" THEN "/login" ELSE route
                /\ sbExpenses' = expensesAfterLoadError(sbExpenses)
                /\ loading' = FALSE
                /\ sbForm' = formAfterLoad(r.kind, sbForm)
                /\ lastReload' = IF outcome = "none" THEN "no user" ELSE "failed"
    /\ UNCHANGED <<sbEditingId, store, nextId, outsideSb>>

\* the table serves the list request: the reply holds the rows of this moment
loadExpenses_selectServed(h) ==
    /\ handlers[h].pc = "select"
    /\ handlers' = [handlers EXCEPT ![h] =
           [@ EXCEPT !.pc = "selectReply", !.reply = orderByDateDesc(store)]]
    /\ UNCHANGED <<sbExpenses, sbForm, sbEditingId, loading, route, store,
                   nextId, lastReload, outsideSb>>

\* the list request returns an error or throws
loadExpenses_selectFails(h, outcome) ==
    /\ handlers[h].pc = "select"
    /\ handlers' = [handlers EXCEPT ![h] =
           return(fail(raise(@, "destructive")))]
    /\ sbExpenses' = expensesAfterLoadError(sbExpenses)
    /\ loading' = FALSE
    /\ sbForm' = formAfterLoad(handlers[h].kind, sbForm)
    /\ lastReload' = "failed"
    /\ UNCHANGED <<sbEditingId, route, store, nextId, outsideSb>>

\* the reply of the list request arrives: setExpenses(data || [])
loadExpenses_selectReturns(h) ==
    /\ handlers[h].pc = "selectReply"
    /\ handlers' = [handlers EXCEPT ![h] = return(@)]
    /\ sbExpenses' = handlers[h].reply
    /\ loading' = FALSE
    /\ sbForm' = formAfterLoad(handlers[h].kind, sbForm)
    /\ lastReload' = "ok"
    /\ UNCHANGED <<sbEditingId, route, store, nextId, outsideSb>>

\* what a remote call does besides succeeding
Failures == {"error", "threw"}

NextSb ==
    \/ sbSetFormAmount("2")
    \/ sbSetFormCategory(EXPENSE_CATEGORIES[1])
    \/ sbSetFormDescription("lunch")
    \/ \E i \in 1..Len(sbExpenses) : sbHandleEdit(sbExpenses[i])
    \/ sbHandleSubmit
    \/ \E h \in Handlers, outcome \in {"ok"} \cup Failures :
           sbUpdateReturns(h, outcome)
    \/ \E h \in Handlers, outcome \in Users \cup {"none", "threw"} :
           sbGetUserReturns(h, outcome)
    \/ \E h \in Handlers, outcome \in {"ok"} \cup Failures :
           sbInsertReturns(h, outcome)
    \/ \E i \in 1..Len(sbExpenses) : sbHandleDelete(sbExpenses[i].id)
    \/ \E h \in Handlers, outcome \in {"ok"} \cup Failures :
           sbDeleteReturns(h, outcome)
    \/ sbHandleLogout
    \/ \E h \in Handlers, outcome \in {"ok"} \cup Failures :
           sbSignOutReturns(h, outcome)
    \/ \E h \in Handlers, outcome \in {"user", "none", "threw"} :
           loadExpenses_getUserReturns(h, outcome)
    \/ \E h \in Handlers : loadExpenses_selectServed(h)
    \/ \E h \in Handlers, outcome \in Failures :
           loadExpenses_selectFails(h, outcome)
    \/ \E h \in Handlers : loadExpenses_selectReturns(h)

----------------------------------------------------------------------------
(* part_000: Login, the mock login page *)

\* what the model types into the User ID and Password inputs
UserIds == {"admin", "guest"}
Passwords == {"password", "secret"}

NoTimer == [userId |-> "", password |-> ""]
EmptyStorage == [isLoggedIn |-> NULL, userId |-> NULL]

\* useState initial values, on /login with nothing stored
InitLogin ==
    /\ userId = ""
    /\ password = ""
    /\ isLoading = FALSE
    /\ loginTimer = NoTimer
    /\ localStorage = EmptyStorage
    /\ path = "/login"
    /\ loginToast = NoToast

\* onChange of the User ID input
setUserId(value) ==
    /\ path = "/login"
    /\ userId' = value
    /\ UNCHANGED <<password, isLoading, loginTimer, localStorage, path,
                   loginToast, outsideLogin>>

\* onChange of the Password input
setPassword(value) ==
    /\ path = "/login"
    /\ password' = value
    /\ UNCHANGED <<userId, isLoading, loginTimer, localStorage, path,
                   loginToast, outsideLogin>>

\* a mutation of credentialsMatch: the password is not compared
credentialsMatch_userOnly(u, p) == u = "admin"

\* userId === 'admin' && password === 'password'
credentialsMatch(u, p) == u = "admin" /\ p = "password"

\* handleLogin up to its return: the validation, then setTimeout with the
\* userId and password of this render.  The button is disabled while
\* isLoading; the handler is run for empty fields too, as a submit event
\* that bypasses the inputs' required attribute does.
handleLogin ==
    /\ path = "/login"
    /\ ~isLoading
    /\ IF userId = "" \/ password = ""
       THEN /\ loginToast' = Toast("Error",
                                   "Please enter both User ID and Password",
                                   "destructive")
            /\ UNCHANGED <<isLoading, loginTimer>>
       ELSE /\ isLoading' = TRUE
            /\ loginTimer' = [userId |-> userId, password |-> password]
            /\ UNCHANGED loginToast
    /\ UNCHANGED <<userId, password, localStorage, path, outsideLogin>>

\* the callback of setTimeout runs, a second later
loginTimeout ==
    /\ loginTimer # NoTimer
    /\ IF credentialsMatch(loginTimer.userId, loginTimer.password)
       THEN /\ localStorage' = [isLoggedIn |-> "true",
                                userId |-> loginTimer.userId]
            /\ loginToast' = Toast("Success", "Login successful!", "default")
            /\ path' = "/"
       ELSE /\ loginToast' = Toast("Error", "Invalid User ID or Password",
                                   "destructive")
            /\ UNCHANGED <<localStorage, path>>
    /\ isLoading' = FALSE
    /\ loginTimer' = NoTimer
    /\ UNCHANGED <<userId, password, outsideLogin>>

\* navigate('/login') of the expense page: Login is mounted afresh
openLogin ==
    /\ path = "/"
    /\ path' = "/login"
    /\ userId' = ""
    /\ password' = ""
    /\ isLoading' = FALSE
    /\ UNCHANGED <<loginTimer, localStorage, loginToast, outsideLogin>>

NextLogin ==
    \/ \E value \in UserIds \cup {""} : setUserId(value)
    \/ \E value \in Passwords \cup {""} : setPassword(value)
    \/ handleLogin
    \/ loginTimeout
    \/ openLogin

\* Login not mounted
LoginIdle == InitLogin

----------------------------------------------------------------------------
(* Specifications *)

\* the charts before their first render
AggIdle == InitCharts({"all"}, {12}, {0})

\* the in-memory variant
InitSpecCalc == InitCalc /\ AggIdle /\ SbIdle /\ LoginIdle
SpecCalc == InitSpecCalc /\ [][NextCalc]_vars

\* the aggregation over every list of the bounds
InitSpecAgg == InitAgg /\ InitCalc /\ SbIdle /\ LoginIdle
SpecAgg == InitSpecAgg /\ [][NextAgg]_vars

\* the Top Spending Categories list over lists of up to MaxTopRecords
\* expenses
InitSpecTop == InitTop /\ InitCalc /\ SbIdle /\ LoginIdle
SpecTop == InitSpecTop /\ [][NextTop]_vars

\* the trend charts and summary cards over every list of the bounds
InitSpecTrend == InitTrend /\ InitCalc /\ SbIdle /\ LoginIdle
SpecTrend == InitSpecTrend /\ [][NextTrend]_vars

\* the Supabase-backed variant
InitSpecSb == InitSb /\ InitCalc /\ AggIdle /\ LoginIdle
SpecSb == InitSpecSb /\ [][NextSb]_vars

\* the page mounts one of the two variants of ExpenseCalculator; the
\* Supabase-backed one is the one whose mount started loadExpenses
SbMounted == handlers[1].kind = "mount"
InitSpecBoth == InitSpecCalc \/ InitSpecSb
NextBoth ==
    \/ ~SbMounted /\ NextCalc
    \/ SbMounted /\ NextSb
SpecBoth == InitSpecBoth /\ [][NextBoth]_vars

\* the mock login page
InitSpecLogin == InitLogin /\ InitCalc /\ AggIdle /\ SbIdle
SpecLogin == InitSpecLogin /\ [][NextLogin]_vars

----------------------------------------------------------------------------
(* Claims about the aggregation (SpecAgg) *)

RECURSIVE SumOfTotals(_, _)
\* the sum of the values of a Record<string, number> over the keys S
SumOfTotals(totals, S) ==
    IF S = {} THEN 0
    ELSE LET c == CHOOSE x \in S : TRUE
         IN  totals[c] + SumOfTotals(totals, S \ {c})

RECURSIVE SumOfPercentages(_)
SumOfPercentages(data) ==
    IF data = << >> THEN Fin(0, 1)
    ELSE jsAdd(Head(data).percentage, SumOfPercentages(Tail(data)))

\* C1: for every non-empty list of expenses, the amounts of categoryData
\* (ExpenseCharts) and the values of categoryTotals (ExpenseCalculator) each
\* add up to the grand total, the sum of the amounts of all expenses.
C1_CategoryTotalsSumToGrandTotal ==
    (rendered /\ props # << >>) =>
        /\ SumAmounts(categoryData) = SumAmounts(props)
        /\ SumOfTotals(categoryTotals, DOMAIN categoryTotals) = SumAmounts(props)

\* C1 witness: a rendered list of three expenses in two categories, two of
\* them in the same category with amounts that add up
C1_Witness ==
    /\ rendered
    /\ Len(props) = 3
    /\ Len(categoryData) = 2
    /\ props[1].category = props[3].category
    /\ props[1].amount = 1 /\ props[3].amount = 2 /\ props[2].amount = 2
    /\ categoryData[1].amount = 3

\* C2 (as claimed): the percentages of categoryData add up to 100 when the
\* grand total is not zero, and are all 0 when it is zero.
C2_PercentagesSumTo100 ==
    rendered =>
        /\ SumAmounts(props) # 0 =>
               jsEq(SumOfPercentages(categoryData), Fin(100, 1))
        /\ SumAmounts(props) = 0 =>
               \A i \in 1..Len(categoryData) :
                   jsEq(categoryData[i].percentage, Fin(0, 1))

RECURSIVE SumAt(_, _)
\* the sum of the amounts at the positions S of a list
SumAt(list, S) ==
    IF S = {} THEN 0
    ELSE LET i == CHOOSE x \in S : TRUE
         IN  list[i].amount + SumAt(list, S \ {i})

\* the positions of the expenses shown under a filter: all of them for
\* 'all', else those of the category
Matching(list, filter) ==
    {i \in 1..Len(list) : filter = "all" \/ list[i].category = filter}

\* C15: the displayed total is the sum of the amounts of all expenses when
\* the filter is 'all' and of exactly the expenses of the category
\* otherwise; the displayed entry count is the number of those expenses.
C15_FilteredTotal ==
    rendered =>
        /\ summary.totalAmount = SumAt(props, Matching(props, propsFilter))
        /\ summary.entries = Cardinality(Matching(props, propsFilter))

\* C15 witness: with the first category selected, a list of two expenses of
\* that category (amounts 2 and 1) around one of another shows total 3 and
\* two entries
C15_Witness ==
    /\ rendered
    /\ propsFilter = EXPENSE_CATEGORIES[1]
    /\ Len(props) = 3
    /\ props[1].category = propsFilter /\ props[1].amount = 2
    /\ props[2].category # propsFilter /\ props[2].amount = 2
    /\ props[3].category = propsFilter /\ props[3].amount = 1
    /\ summary.totalAmount = 3
    /\ summary.entries = 2

----------------------------------------------------------------------------
(* Claims about the trend charts and the summary cards (SpecTrend) *)

\* the year and month an ISO date string spells
yearMonthOf(date) == [year |-> DateTable[date].y, month |-> DateTable[date].m]

\* the positions of the expenses dated in a year and month
InYearMonth(list, key) ==
    {i \in 1..Len(list) : yearMonthOf(list[i].date) = key}

\* C12 (as claimed): the monthly totals hold exactly one group for each
\* year+month that occurs among the dates of the expenses, with the sum of
\* the amounts and the number of the expenses dated in that year+month.
C12_MonthlyGroups ==
    rendered =>
        /\ {monthlyData[i].monthKey : i \in 1..Len(monthlyData)}
               = {yearMonthOf(props[i].date) : i \in 1..Len(props)}
        /\ \A i, j \in 1..Len(monthlyData) :
               i # j => monthlyData[i].monthKey # monthlyData[j].monthKey
        /\ \A i \in 1..Len(monthlyData) :
               /\ monthlyData[i].amount
                      = SumAt(props, InYearMonth(props, monthlyData[i].monthKey))
               /\ monthlyData[i].count
                      = Cardinality(InYearMonth(props, monthlyData[i].monthKey))

\* C13: whatever the order of the expenses, the monthly groups come in
\* ascending order of year and month and the daily groups in ascending
\* order of date.
C13_GroupsAscending ==
    rendered =>
        /\ \A i, j \in 1..Len(monthlyData) :
               i < j => monthlyData[i].monthKey.year * 12
                            + monthlyData[i].monthKey.month
                        < monthlyData[j].monthKey.year * 12
                            + monthlyData[j].monthKey.month
        /\ \A i, j \in 1..Len(dailyData) :
               i < j => dayNumber(DateTable[dailyData[i].date])
                        < dayNumber(DateTable[dailyData[j].date])

\* C13 witness: three expenses handed over latest first, in a browser on
\* UTC, drawn as three months and three days with the earliest first
C13_Witness ==
    /\ rendered
    /\ timeZone = 0
    /\ Len(props) = 3
    /\ props[1].date = "2024-03-01"
    /\ props[2].date = "2024-02-10"
    /\ props[3].date = "2024-02-01"
    /\ Len(monthlyData) = 2
    /\ monthlyData[1].monthKey = [year |-> 2024, month |-> 2]
    /\ Len(dailyData) = 3
    /\ dailyData[1].date = "2024-02-01"

\* the date lies within the 30 days before the present instant: its
\* midnight is not earlier than that instant minus 30 days and not later
\* than that instant
withinLast30Days(date, hour) ==
    /\ getTime(DateTable[date], 0) >= getTime(DateTable[today], hour) - 30 * 24
    /\ getTime(DateTable[date], 0) <= getTime(DateTable[today], hour)

\* C14 (as claimed): the daily totals hold a group for a date exactly when
\* an expense has that date and the date lies within the 30 days before
\* now; the amount of the group is the sum of the amounts of the expenses
\* of that date.
C14_DailyWindow ==
    rendered =>
        /\ {dailyData[i].date : i \in 1..Len(dailyData)}
               = {props[i].date : i \in {k \in 1..Len(props) :
                                            withinLast30Days(props[k].date, nowHour)}}
        /\ \A i \in 1..Len(dailyData) :
               dailyData[i].amount
                   = SumAt(props, {k \in 1..Len(props) :
                                      props[k].date = dailyData[i].date})

\* C16 (as claimed): This Month is the sum of the amounts of exactly the
\* expenses whose date spells the current month, whatever their year.
C16_ThisMonthAnyYear ==
    rendered =>
        summary.thisMonth
            = SumAt(props, {i \in 1..Len(props) :
                  DateTable[props[i].date].m
                      = localDay(DateTable[today], nowHour, timeZone).m})

\* C19: for an empty list the category totals, the monthly totals and the
\* daily totals are empty, and the grand total, the filtered total for
\* every filter and the current-month total are 0.
C19_EmptyListGivesEmptyAndZero ==
    (rendered /\ props = << >>) =>
        /\ categoryData = << >>
        /\ categoryTotals = << >>
        /\ monthlyData = << >>
        /\ dailyData = << >>
        /\ chartsTotalAmount(categoryData) = 0
        /\ summary.totalAmount = 0
        /\ summary.entries = 0
        /\ \A filter \in Filters : totalAmount(props, filter) = 0
        /\ summary.thisMonth = 0

\* C19 witness: the empty list rendered with a category selected, at
\* midnight UTC in a browser west of UTC
C19_Witness ==
    /\ rendered
    /\ props = << >>
    /\ propsFilter = EXPENSE_CATEGORIES[2]
    /\ nowHour = 0
    /\ timeZone = -5
    /\ summary = NoSummary

----------------------------------------------------------------------------
(* Claims about the in-memory variant (SpecCalc) *)

\* the share of a category in the grand total over all expenses, 0 when the
\* grand total is 0
shareOfGrandTotal(list, category) ==
    IF SumAmounts(list) = 0 THEN Fin(0, 1)
    ELSE Fin(CategoryTotals(list)[category] * 100, SumAmounts(list))

\* C3 (as claimed): whatever the category filter, the share shown for each
\* category in the Category Breakdown is its total divided by the grand total
\* over all expenses, times 100, and 0 when the grand total is 0.
C3_ShareOfGrandTotal ==
    \A category \in DOMAIN CategoryTotals(expenses) :
        jsEq(breakdownShare(expenses, filterCategory, category),
             shareOfGrandTotal(expenses, category))

\* C4 (as claimed): no two expenses of the in-memory list have the same id.
C4_UniqueIds ==
    \A i, j \in 1..Len(expenses) : i # j => expenses[i].id # expenses[j].id

\* the list without its i-th element
RemoveAt(list, i) == SubSeq(list, 1, i - 1) \o SubSeq(list, i + 1, Len(list))

\* C5 (as claimed): handleDelete(id) removes exactly one expense, the one
\* with that id, and leaves the others and their order as they were.
C5_DeleteRemovesExactlyOne ==
    [][\A expense \in Listed :
          handleDelete(expense.id) =>
              \E i \in 1..Len(expenses) :
                  /\ expenses[i].id = expense.id
                  /\ expenses' = RemoveAt(expenses, i)]_vars

\* C6 (as claimed): a valid submit while editingId is set replaces the fields
\* of the one expense with that id, which keeps its id and position, and
\* leaves every other expense as it was.
C6_EditReplacesOne ==
    [][(handleSubmit /\ editingId # NULL /\ ~formInvalid(form)) =>
          /\ Len(expenses') = Len(expenses)
          /\ Cardinality({i \in 1..Len(expenses) : expenses[i].id = editingId}) <= 1
          /\ \A i \in 1..Len(expenses) :
                IF expenses[i].id = editingId
                THEN expenses'[i] = [id |-> editingId,
                                     amount |-> parseFloat(form.amount),
                                     category |-> form.category,
                                     description |-> form.description,
                                     date |-> form.date]
                ELSE expenses'[i] = expenses[i]]_vars

----------------------------------------------------------------------------
(* Claims about the Supabase-backed variant (SpecSb) *)

\* the handler h returns in this step
Returns(h) == handlers[h].pc # "done" /\ handlers'[h].pc = "done"

\* the update, insert, delete or list request of the handler h returns an
\* error or throws in this step
Fails(h) == ~handlers[h].failed /\ handlers'[h].failed

ReloadInFlight == \E h \in Handlers : handlers[h].pc \in {"select", "selectReply"}

\* the update, insert or delete request of the handler is in flight
MutationInFlight(r) == r.pc \in {"update", "insert", "delete"}

\* C8 (as claimed): while a list request of loadExpenses is in flight, no
\* update, insert or delete request is sent.
C8_NoMutationDuringReload ==
    [][ReloadInFlight =>
          \A h \in Handlers :
              MutationInFlight(handlers'[h]) => MutationInFlight(handlers[h])]_vars

\* no remote call is in flight
Quiet == \A h \in Handlers : handlers[h].pc \in {"idle", "done"}

\* no remote call of a handler failed and nobody was sent to /login
NoCallFailed ==
    /\ route = "/"
    /\ \A h \in Handlers :
           /\ ~handlers[h].failed
           /\ handlers[h].auth \in {"unasked", "user"}
           /\ "destructive" \notin handlers[h].toasts

\* C9 (as claimed): once no remote call is in flight and the last loadExpenses
\* that finished succeeded, the list holds the rows of the table.  Stated for
\* the runs in which every remote call succeeded, where it fails already.
C9_ListEqualsStoreWhenQuiet ==
    (Quiet /\ lastReload = "ok" /\ NoCallFailed) =>
        sbExpenses = orderByDateDesc(store)

\* the handlers of handleSubmit and handleDelete
Mutators == {h \in Handlers : handlers[h].kind \in {"submit", "delete"}}

\* C10 (as claimed): a mutation that returned without error is followed,
\* before its handler returns, by a list request to the table; one that
\* returned an error is followed by none.
C10_MutationFollowedByList ==
    \A h \in Mutators :
        /\ (handlers[h].pc = "done" /\ handlers[h].mutation = "ok") =>
               handlers[h].selectSent
        /\ handlers[h].mutation \in Failures => ~handlers[h].selectSent

\* C10 (amended): a mutation that returned without error is followed, before
\* its handler returns, by a call of loadExpenses, which sends the list
\* request exactly when auth.getUser() resolves a user; a mutation that
\* returned an error or threw is followed by no call of loadExpenses and no
\* list request.
C10_MutationFollowedByLoadExpenses ==
    \A h \in Mutators :
        /\ handlers[h].mutation = "ok" => handlers[h].loadCalled
        /\ handlers[h].loadCalled => handlers[h].mutation = "ok"
        /\ handlers[h].selectSent <=>
               (handlers[h].loadCalled /\ handlers[h].auth = "user")
        /\ handlers[h].mutation \in Failures =>
               (~handlers[h].loadCalled /\ ~handlers[h].selectSent)

\* C10 witness: a delete returned without error and its handler, which has
\* returned, called loadExpenses and sent the list request
C10_Witness ==
    \E h \in Mutators :
        /\ handlers[h].kind = "delete"
        /\ handlers[h].mutation = "ok"
        /\ handlers[h].loadCalled
        /\ handlers[h].selectSent
        /\ handlers[h].pc = "done"
        /\ Len(store) = 1
        /\ sbExpenses = store

----------------------------------------------------------------------------
(* Claims about both variants (SpecBoth) *)

\* amount, category or description of the form is empty
SomeRequiredFieldEmpty(f) ==
    f.amount = "" \/ f.category = "" \/ f.description = ""

\* C11: in both variants a submit of a form whose amount, category or
\* description is empty raises the validation notification, makes no remote
\* call (the handler returns at once, with no request sent and loadExpenses
\* not called) and leaves the list, editingId and the form as they were.
C11_InvalidSubmitChangesNothing ==
    [][/\ (handleSubmit /\ SomeRequiredFieldEmpty(form)) =>
             /\ toast' = Toast("Validation Error",
                               "Please fill in all required fields.",
                               "destructive")
             /\ UNCHANGED <<expenses, editingId, form>>
       /\ (sbHandleSubmit /\ SomeRequiredFieldEmpty(sbForm)) =>
             /\ handlers'[Min(Free)].toasts = {"destructive"}
             /\ handlers'[Min(Free)].pc = "done"
             /\ handlers'[Min(Free)].req = NoRequest
             /\ handlers'[Min(Free)].mutation = "none"
             /\ ~handlers'[Min(Free)].loadCalled
             /\ ~handlers'[Min(Free)].selectSent
             /\ UNCHANGED <<sbExpenses, sbEditingId, sbForm, store>>]_vars

\* C11 witness: the Supabase-backed variant after a submit of a form with an
\* amount but no category: the handler has returned with the destructive
\* toast and without a request, the form and the loaded list are still there
C11_Witness ==
    /\ SbMounted
    /\ sbForm.amount = "2" /\ sbForm.category = ""
    /\ sbExpenses = orderByDateDesc(store) /\ Len(sbExpenses) = 2
    /\ \E h \in Handlers :
           /\ handlers[h].kind = "submit"
           /\ handlers[h].pc = "done"
           /\ handlers[h].toasts = {"destructive"}
           /\ handlers[h].mutation = "none"
           /\ ~handlers[h].loadCalled

----------------------------------------------------------------------------
(* Claims about the create branch of the Supabase-backed variant (SpecSb) *)

\* C18: the insert request a handler sends carries the id of the user that
\* auth.getUser() resolved in the step before, and the row the table stores
\* is the one requested; when auth.getUser() resolves no user the handler
\* returns without an insert request, the list and the table are left as
\* they are and the route becomes /login.
C18_InsertCarriesResolvedUser ==
    [][\A h \in Handlers :
          /\ \A user \in Users :
                sbGetUserReturns(h, user) =>
                    /\ handlers'[h].pc = "insert"
                    /\ handlers'[h].req.fields.user_id = user
          /\ handlers'[h].pc = "insert" =>
                (handlers[h].pc \in {"getUser", "insert"}
                    /\ handlers'[h].req.fields.user_id \in Users)
          /\ sbInsertReturns(h, "ok") =>
                /\ Len(store') = Len(store) + 1
                /\ store'[Len(store')].user_id = handlers[h].req.fields.user_id
          /\ sbGetUserReturns(h, "none") =>
                /\ handlers'[h].pc = "done"
                /\ handlers'[h].mutation = "none"
                /\ UNCHANGED <<sbExpenses, store>>
                /\ route' = "/login"]_vars

\* C18 witness: an insert sent for the second user has been stored while the
\* first user's rows were there, and the reload shows the three rows
C18_Witness ==
    /\ Len(store) = 3
    /\ store[3].user_id = "u2"
    /\ store[1].user_id = UserId
    /\ Len(sbExpenses) = 3
    /\ \E h \in Handlers :
           /\ handlers[h].kind = "submit"
           /\ handlers[h].mutation = "ok"
           /\ handlers[h].pc = "done"

----------------------------------------------------------------------------
(* Claims about the mock login (SpecLogin) *)

\* C17: a login attempt stores isLoggedIn = 'true' and navigates to '/' if
\* and only if the submitted user id is 'admin' and the submitted password
\* is 'password'; for every other pair, an empty field included, local
\* storage and the path stay as they are.  The submitted values are those
\* of the form when it was submitted, whatever is typed afterwards.
C17_LoginOnlyWithAdminPassword ==
    [][/\ (loginTimeout /\ loginTimer.userId = "admin"
                        /\ loginTimer.password = "password") =>
             /\ localStorage'.isLoggedIn = "true"
             /\ path' = "/"
       /\ (loginTimeout /\ ~(loginTimer.userId = "admin"
                              /\ loginTimer.password = "password")) =>
             UNCHANGED <<localStorage, path>>
       /\ handleLogin =>
             /\ UNCHANGED <<localStorage, path>>
             /\ loginTimer' # NoTimer =>
                   (loginTimer' = [userId |-> userId, password |-> password]
                       /\ userId # "" /\ password # "")
       /\ (localStorage' # localStorage \/ (path = "/login" /\ path' = "/")) =>
             /\ loginTimeout
             /\ loginTimer.userId = "admin"
             /\ loginTimer.password = "password"]_vars

\* C17 witness: logged in with admin / password although the inputs were
\* changed to other values while the timer was pending
C17_Witness ==
    /\ path = "/"
    /\ localStorage = [isLoggedIn |-> "true", userId |-> "admin"]
    /\ userId = "guest"
    /\ password = "secret"
    /\ loginToast.title = "Success"

----------------------------------------------------------------------------
(* Claims about submissions of the in-memory variant (SpecCalc) *)

\* C20 (as claimed): after a submit that passes the validation and raises
\* the Success toast, the list holds an expense whose amount, category,
\* description and date are those of the submitted form.
C20_SubmittedValuesAreStored ==
    [][(handleSubmit /\ ~SomeRequiredFieldEmpty(form)
                     /\ toast'.title = "Success") =>
          \E i \in 1..Len(expenses') :
              /\ expenses'[i].amount = parseFloat(form.amount)
              /\ expenses'[i].category = form.category
              /\ expenses'[i].description = form.description
              /\ expenses'[i].date = form.date]_vars

----------------------------------------------------------------------------
(* Claims about a failing submission of the Supabase-backed variant (SpecSb) *)

\* the update or insert request of the handler h returns an error or throws
\* in this step
SubmitRequestFails(h) ==
    \E outcome \in Failures :
        sbUpdateReturns(h, outcome) \/ sbInsertReturns(h, outcome)

\* editingId goes from an id to null only in the step in which an update
\* request returns without error
EditingIdClearedOnlyByUpdate ==
    (sbEditingId # NULL /\ sbEditingId' = NULL) =>
        \E h \in Handlers : sbUpdateReturns(h, "ok")

\* the form goes back to the empty form only in the step in which the
\* loadExpenses called by a handleSubmit returns
FormResetOnlyAfterReload ==
    (sbForm # EmptyForm /\ sbForm' = EmptyForm) =>
        \E h \in Handlers :
            /\ handlers[h].kind = "submit"
            /\ handlers[h].mutation = "ok"
            /\ handlers[h].pc \in {"loadGetUser", "select", "selectReply"}
            /\ Returns(h)

\* the form holds what the request of the handler was built from
FormAsSubmitted(f, req) ==
    /\ f.amount # ""
    /\ parseFloat(f.amount) = req.fields.amount
    /\ f.category = req.fields.category
    /\ f.description = req.fields.description
    /\ f.date = req.fields.date

\* C21 (as claimed): when the update or insert request of a submission
\* returns an error or throws, editingId and the form are what they were
\* when the form was submitted; editingId is cleared only after an update
\* request returned without error and the form is reset only after the
\* reload that follows has finished.
C21_AsBeforeTheSubmission ==
    [][/\ \A h \in Handlers :
             SubmitRequestFails(h) =>
                 /\ sbEditingId' = handlers[h].req.id
                 /\ FormAsSubmitted(sbForm', handlers[h].req)
       /\ EditingIdClearedOnlyByUpdate
       /\ FormResetOnlyAfterReload]_vars

\* C21 (amended): the step in which the update or insert request of a
\* submission returns an error or throws leaves editingId and the form as
\* they are; editingId is cleared only in the step in which an update
\* request returns without error, and the form is reset only in the step
\* in which the loadExpenses that follows a successful request returns.
C21_FailureLeavesFormAndEditingId ==
    [][/\ \A h \in Handlers :
             SubmitRequestFails(h) => UNCHANGED <<sbEditingId, sbForm>>
       /\ EditingIdClearedOnlyByUpdate
       /\ FormResetOnlyAfterReload]_vars

\* C21 witness: the update request of an edit returned an error: the
\* handler has returned, editingId is still the id of the expense under
\* edit, the form still holds the amount typed and the table is untouched
C21_Witness ==
    /\ sbEditingId = "1"
    /\ sbForm.amount = "2"
    /\ sbForm.category = EXPENSE_CATEGORIES[1]
    /\ store = InitialRows
    /\ \E h \in Handlers :
           /\ handlers[h].kind = "submit"
           /\ handlers[h].mutation = "error"
           /\ handlers[h].failed
           /\ handlers[h].pc = "done"

----------------------------------------------------------------------------
(* Claims about the grouping keys and the top categories (SpecTrend, SpecAgg) *)

\* no two entries of a sequence have the same value under key
NoTwoWithSameKey(data, key(_)) ==
    \A i, j \in 1..Len(data) : i # j => key(data[i]) # key(data[j])

\* C22 (as claimed): categoryData, monthlyData and dailyData hold no two
\* entries with the same key: exactly one entry for each category among the
\* expenses, one for each year-month among their dates and one for each of
\* their dates within the 30 days before now.
C22_OneEntryPerKey ==
    rendered =>
        /\ NoTwoWithSameKey(categoryData, LAMBDA item : item.category)
        /\ {categoryData[i].category : i \in 1..Len(categoryData)}
               = {props[i].category : i \in 1..Len(props)}
        /\ NoTwoWithSameKey(monthlyData, LAMBDA item : item.monthKey)
        /\ Len(monthlyData)
               = Cardinality({yearMonthOf(props[i].date) : i \in 1..Len(props)})
        /\ NoTwoWithSameKey(dailyData, LAMBDA item : item.date)
        /\ Len(dailyData)
               = Cardinality({props[i].date : i \in
                     {k \in 1..Len(props) :
                         withinLast30Days(props[k].date, nowHour)}})

\* the categories among the expenses
CategoriesOf(list) == {list[i].category : i \in 1..Len(list)}

\* C23: the Top Spending Categories list holds min(5, number of categories
\* among the expenses) entries, each a different category with its total,
\* in non-increasing order of total, and no category left out has a total
\* greater than that of a listed one.
C23_TopFiveCategories ==
    rendered =>
        LET listed == {topCategories[i].category : i \in 1..Len(topCategories)}
        IN  /\ Len(topCategories)
                   = (IF Cardinality(CategoriesOf(props)) < 5
                      THEN Cardinality(CategoriesOf(props)) ELSE 5)
            /\ Cardinality(listed) = Len(topCategories)
            /\ listed \subseteq CategoriesOf(props)
            /\ \A i \in 1..Len(topCategories) :
                   topCategories[i].amount
                       = categoryTotals[topCategories[i].category]
            /\ \A i, j \in 1..Len(topCategories) :
                   i < j => topCategories[i].amount >= topCategories[j].amount
            /\ \A c \in CategoriesOf(props) \ listed :
                   \A i \in 1..Len(topCategories) :
                       categoryTotals[c] <= topCategories[i].amount

\* C23 witness: six expenses of six categories, the first of them with the
\* smallest amount: five categories are listed, the largest first, and the
\* first category is left out
C23_Witness ==
    /\ rendered
    /\ Len(props) = 6
    /\ Cardinality(CategoriesOf(props)) = 6
    /\ props[1].amount = -1
    /\ props[6].amount = 2
    /\ Len(topCategories) = 5
    /\ topCategories[1].amount = 2
    /\ topCategories[5].amount = 1
    /\ \A i \in 1..5 : topCategories[i].category # props[1].category

\* handleLogout of slot h takes a step: it starts, or its sign-out returns
LogoutSteps(h) ==
    /\ handlers'[h].kind = "logout"
    /\ handlers'[h] # handlers[h]

\* C24: a step of handleLogout sets the route to /login when its sign-out
\* returned without error, and leaves the route as it is in every other case;
\* when its sign-out returned an error or threw it raises a destructive toast
\* and no other; no step of handleLogout changes the expenses list.
C24_LogoutNavigatesIffSignedOut ==
    [][\A h \in Handlers :
          LogoutSteps(h) =>
              /\ sbExpenses' = sbExpenses
              /\ handlers'[h].signOut = "ok" =>
                     /\ route' = "/login"
                     /\ handlers'[h].toasts = {"default"}
              /\ handlers'[h].signOut # "ok" => route' = route
              /\ handlers'[h].signOut \in Failures =>
                     handlers'[h].toasts = {"destructive"}]_vars

\* C24 witness: with expenses on the list, a sign-out returned without error
\* and the login page is shown
C24_Witness ==
    /\ lastReload = "ok"
    /\ sbExpenses # << >>
    /\ route = "/login"
    /\ \E h \in Handlers :
           /\ handlers[h].kind = "logout"
           /\ handlers[h].signOut = "ok"
           /\ handlers[h].pc = "done"

====
